---- MODULE Spec2Model ----
(***************************************************************************)
(* Reverse Game of Life: the Z3 encoding of one Life step (rgol.cpp) and   *)
(* the two-task orchestration of Board::previous_state (board.cpp,         *)
(* utils.hpp).                                                             *)
(*                                                                         *)
(* A Matrix<T> of n rows and m columns is its `base' vector: a function    *)
(* on 0 .. n*m-1, element (i, j) being base[i*m + j].                      *)
(***************************************************************************)
EXTENDS Integers, Sequences, FiniteSets, TLC

\* Grids of every shape rows x cols with rows*cols <= MaxCells are explored.
MaxCells == 4
\* previous_state is called with wait_time in 0 .. MaxWaitTime seconds.
MaxWaitTime == 1

\* The encoding of solve_iter alone is explored on the grids of at most
\* MaxSolverSide rows and columns and MaxSolverCells cells, which include the
\* 3 x 3 grid and its cell with all max_neigh neighbours.
MaxSolverSide == 3
MaxSolverCells == 9
\* Live cells of the boards handed to solve_iter when it is run to its end
\* on grids of that size.
MaxLiveAtT1 == 1
\* init_repr alone is explored on grids of up to MaxNameSide rows and columns,
\* whose indices reach two digits.
MaxNameSide == 12
\* main is explored on inputs of every kind, malformed ones included, for
\* boards of at most MaxInputCells cells.
MaxInputCells == 2

\* The budgets, in ticks, for which every reading of the clock is explored.
MaxBudget == 3

\* The first program's board reader is explored on boards of at most
\* MaxReadCells cells, which lets a board have more columns than rows >= 2.
MaxReadCells == 6

\* The shapes rows x cols of sides up to `side' and of at most `cells' cells.
Shapes(side, cells) == {d \in (1..side) \X (1..side) : d[1] * d[2] <= cells}
Dims == Shapes(MaxCells, MaxCells)

\* Matrix<int>(n, m): base(n * m, T{def}) with def = {} (zero).
Matrix(rows, cols) == [k \in 0..(rows * cols - 1) |-> 0]

\* The 0/1 boards of a shape, and the truth assignments of the rows*cols
\* boolean constants t0_i_j (or t1_i_j) of one solver context.
Tables(rows, cols) == [0..(rows * cols - 1) -> {0, 1}]
Assignments(rows, cols) == [0..(rows * cols - 1) -> BOOLEAN]

\* Matrix::operator()(i, j) on an in-range pair: data[i][j] = base[i*m + j].
At(base, cols, i, j) == base[i * cols + j]

\* A Matrix whose row pointers are set rows apart: data[i] = &base[i * n].
data_by_rows(rows, cols) == [r \in 0..(rows - 1) |-> r * rows]

\* Matrix(n, m): the row pointers, data[i] = &base[i * m], as offsets in base.
data(rows, cols) == [r \in 0..(rows - 1) |-> r * cols]

\* Matrix::at(mat, i, j), behind operator(): throws std::out_of_range when
\* i >= mat._n || j >= mat._m, else returns a reference to mat.data[i][j],
\* given here as the element of base it refers to.
out_of_range == [thrown |-> "std::out_of_range"]
at(rows, cols, ci, cj) ==
    IF ci >= rows \/ cj >= cols THEN out_of_range
    ELSE [ref |-> data(rows, cols)[ci] + cj]

max_neigh == 8

off ==
    << <<-1, -1>>, <<-1, 0>>, <<-1, 1>>,
       << 0, -1>>,            << 0, 1>>,
       << 1, -1>>, << 1, 0>>, << 1, 1>> >>

\* z3::ite(b, one, zero) under an assignment.
Ite01(b) == IF b THEN 1 ELSE 0

\* The loop of neigh_sum from k on: the value, under the assignment ct0, of
\* the sum of ite(ct0(x, y), 1, 0) over the offsets whose cell is in range.
RECURSIVE neigh_loop(_, _, _, _, _, _)
neigh_loop(ct0, rows, cols, i, j, k) ==
    IF k > max_neigh THEN 0
    ELSE LET x == off[k][1] + i
             y == off[k][2] + j
         IN  (IF (x >= 0 /\ x < rows) /\ (y >= 0 /\ y < cols)
                THEN Ite01(At(ct0, cols, x, y))
                ELSE 0)
             + neigh_loop(ct0, rows, cols, i, j, k + 1)

\* A neigh_sum whose range test lets the row below the last one through
\* wrapped onto row 0 of the same column.
neigh_sum_wrap(ct0, rows, cols, i, j) ==
    LET term(k) ==
            LET x == off[k][1] + i
                y == off[k][2] + j
            IN  IF (x >= 0 /\ x <= rows) /\ (y >= 0 /\ y < cols)
                  THEN Ite01(At(ct0, cols, x % rows, y))
                  ELSE 0
    IN  term(1) + term(2) + term(3) + term(4) + term(5) + term(6) + term(7) + term(8)

neigh_sum(ct0, rows, cols, i, j) == neigh_loop(ct0, rows, cols, i, j, 1)

\* How many neighbours neigh_sum counts for the cell (i, j): the offsets that
\* pass its range test, each adding one term to the sum.
NeighbourCount(rows, cols, i, j) ==
    neigh_sum([k \in 0..(rows * cols - 1) |-> TRUE], rows, cols, i, j)

\* The constraint add_clauses adds for cell (i, j):
\*   ct1(i, j) == ite(neigh == 3 || (ct0(i, j) && neigh == 2), true, false)
rule_clause(ct0, ct1, rows, cols, i, j) ==
    LET neigh == neigh_sum(ct0, rows, cols, i, j)
    IN  At(ct1, cols, i, j)
          = (IF (neigh = 3) \/ (At(ct0, cols, i, j) /\ (neigh = 2))
               THEN TRUE ELSE FALSE)

\* The earlier add_clauses without its last implication.
four_implications(ct0, ct1, rows, cols, ci, cj) ==
    LET neigh == neigh_sum(ct0, rows, cols, ci, cj)
        c0 == At(ct0, cols, ci, cj)
        c1 == At(ct1, cols, ci, cj)
    IN  /\ (c0 /\ (neigh <= 1)) => (c1 = FALSE)
        /\ (c0 /\ (neigh = 2 \/ neigh = 3)) => (c1 = TRUE)
        /\ (c0 /\ (neigh >= 4)) => (c1 = FALSE)
        /\ (~c0 /\ (neigh = 3)) => (c1 = TRUE)

\* The constraints the earlier add_clauses adds for the cell (ci, cj), five
\* z3::implies, all of which hold under the assignment.
five_implications(ct0, ct1, rows, cols, ci, cj) ==
    LET neigh == neigh_sum(ct0, rows, cols, ci, cj)
        c0 == At(ct0, cols, ci, cj)
        c1 == At(ct1, cols, ci, cj)
    IN  /\ (c0 /\ (neigh <= 1)) => (c1 = FALSE)
        /\ (c0 /\ (neigh = 2 \/ neigh = 3)) => (c1 = TRUE)
        /\ (c0 /\ (neigh >= 4)) => (c1 = FALSE)
        /\ (~c0 /\ (neigh = 3)) => (c1 = TRUE)
        /\ (~c0 /\ (neigh # 3)) => (c1 = FALSE)

\* All the constraints add_clauses adds hold under the assignment.
add_clauses(ct0, ct1, rows, cols) ==
    \A i \in 0..(rows - 1) : \A j \in 0..(cols - 1) :
        rule_clause(ct0, ct1, rows, cols, i, j)

\* The value of the expression add_clauses returns:
\*   total = total + ite(ct0(i, j), 1, 0), row by row.
RECURSIVE total_loop(_, _, _)
total_loop(ct0, cells, k) ==
    IF k >= cells THEN 0 ELSE Ite01(ct0[k]) + total_loop(ct0, cells, k + 1)

total(ct0, rows, cols) == total_loop(ct0, rows * cols, 0)

\* An init_repr whose conditional has its branches swapped:
\*   ct1(i, j) == (t1(i, j) ? false : true)
init_repr_swapped(tab1, ct1, rows, cols) ==
    \A i \in 0..(rows - 1) : \A j \in 0..(cols - 1) :
        At(ct1, cols, i, j) = (IF At(tab1, cols, i, j) # 0 THEN FALSE ELSE TRUE)

\* All the constraints init_repr adds hold under the assignment:
\*   ct1(i, j) == (t1(i, j) ? true : false)
init_repr(tab1, ct1, rows, cols) ==
    \A i \in 0..(rows - 1) : \A j \in 0..(cols - 1) :
        At(ct1, cols, i, j) = (IF At(tab1, cols, i, j) # 0 THEN TRUE ELSE FALSE)

\* std::to_string of an index: its decimal digits, as a sequence of characters.
Digits == <<"0", "1", "2", "3", "4", "5", "6", "7", "8", "9">>
RECURSIVE to_string(_)
to_string(v) ==
    IF v < 10 THEN <<Digits[v + 1]>>
    ELSE to_string(v \div 10) \o <<Digits[(v % 10) + 1]>>

\* A naming that leaves out the "_" between the two indices.
cell_name_unseparated(prefix, ci, cj) == prefix \o to_string(ci) \o to_string(cj)

\* init_repr: k = to_string(i) + "_" + to_string(j); n0 = "t0_" + k;
\* n1 = "t1_" + k.
cell_name(prefix, ci, cj) == prefix \o to_string(ci) \o <<"_">> \o to_string(cj)

\* init_repr: ct0(i, j) = bool_const(n0), ct1(i, j) = bool_const(n1); a
\* bool_const is the variable of its name.
Repr(rows, cols) ==
    [ct0 |-> [k \in 0..(rows * cols - 1) |->
                 cell_name(<<"t", "0", "_">>, k \div cols, k % cols)],
     ct1 |-> [k \in 0..(rows * cols - 1) |->
                 cell_name(<<"t", "1", "_">>, k \div cols, k % cols)]]

\* fill_t0: the board read off a model.
fill_t0(ct0, rows, cols) == [k \in 0..(rows * cols - 1) |-> IF ct0[k] THEN 1 ELSE 0]

\* count_ones: sum += e.is_true() ? 1 : 0 over the cells of the model.
RECURSIVE count_loop(_, _, _)
count_loop(ct0, cells, k) ==
    IF k >= cells THEN 0
    ELSE (IF ct0[k] THEN 1 ELSE 0) + count_loop(ct0, cells, k + 1)

\* A count_ones whose conditional is swapped: sum += e.is_true() ? 0 : 1.
count_zeros(ct0, rows, cols) == rows * cols - count_loop(ct0, rows * cols, 0)

count_ones(ct0, rows, cols) == count_loop(ct0, rows * cols, 0)

\* The t0 parts of the assignments that satisfy what init_repr and
\* add_clauses put into a solver for the board tab1; init_repr leaves ct1
\* one value.
Satisfying(tab1, rows, cols) ==
    LET ct1 == CHOOSE c \in Assignments(rows, cols) : init_repr(tab1, c, rows, cols)
    IN  {a[1] : a \in {a \in Assignments(rows, cols) \X {ct1} :
                          add_clauses(a[1], a[2], rows, cols)}}

----
\* Conway's rule on a rows x cols board with hard boundaries, as the
\* glossary states it: the reference the encoding is compared with.
Moore(rows, cols, i, j) ==
    {c \in (0..(rows - 1)) \X (0..(cols - 1)) :
        /\ c # <<i, j>>
        /\ c[1] - i \in {-1, 0, 1}
        /\ c[2] - j \in {-1, 0, 1}}

LiveNeighbours(g, rows, cols, i, j) ==
    Cardinality({c \in Moore(rows, cols, i, j) : g[c[1] * cols + c[2]] = 1})

Life(g, rows, cols) ==
    [k \in 0..(rows * cols - 1) |->
        LET i == k \div cols
            j == k % cols
            live == LiveNeighbours(g, rows, cols, i, j)
        IN  IF live = 3 \/ (g[k] = 1 /\ live = 2) THEN 1 ELSE 0]

LiveCells(g) == Cardinality({k \in DOMAIN g : g[k] = 1})

\* Life(g, rows, cols) = next, decided cell by cell.
IsPredecessor(g, next, rows, cols) ==
    \A k \in 0..(rows * cols - 1) :
        LET live == LiveNeighbours(g, rows, cols, k \div cols, k % cols)
        IN  (next[k] = 1) <=> (live = 3 \/ (g[k] = 1 /\ live = 2))

----
\* Time.  Every duration is a multiple of 8 ms here and is kept in ticks of
\* 8 ms, in which 1000 ms is 125, 200 ms is 25 and the 2^32 ms range of
\* `unsigned' is 2^29: arithmetic on `unsigned' is arithmetic modulo Wrap.
Wrap == 2^29
Unsigned(x) == x % Wrap
MsPerSecond == 1000 \div 8
Reserve == 200 \div 8

\* What one timed block may take, as time_it measures it (k), in ticks: for
\* a budget of at most MaxBudget ticks every reading up to one tick over it,
\* for a larger one no measurable time or all that was left of the budget.
SolverElapsed(tmo) == IF tmo <= MaxBudget THEN 0..(tmo + 1) ELSE {0, tmo}

\* timeout -= k with no test of k against timeout.
time_it_unguarded(tmo, k) == Unsigned(tmo - k)

\* time_it: if(k < timeout) timeout -= k; else timeout = 0; k is a long long
\* and timeout an unsigned, so the test and the difference are taken in
\* long long and the difference is stored back as an unsigned.
time_it(tmo, k) == IF k < tmo THEN Unsigned(tmo - k) ELSE 0

VARIABLES
    n, m,          \* shape of the board read by main
    t1,            \* Board::table of the board at t1
    cin,           \* std::cin after n and m: [tokens, failbit], the values it
                   \* held for the cells and its state after std::cin >> board
    wait_time,     \* argument of previous_state, in seconds
    pc,            \* where previous_state / launch_tasks stands
    wt,            \* wait_time of launch_tasks (1000 * seconds), in ticks
    ret,           \* std::pair<bool, bool> ret of launch_tasks; ret.first is
                   \* also the `sat' reference of solve_iter
    anyfut,        \* "nullopt" | "valid" | "retrieved" (after get())
    minfut,
    anyWait,       \* how the timed wait on anyfut ended: "none" | "ready" |
                   \* "expired" | "skipped" (zero duration)
    remaining,     \* duration handed to the wait on minfut, in ticks
    status,        \* the pair previous_state receives; set = FALSE until copied
    result,        \* what previous_state returned
    anyPc,         \* solve_iter task: "idle" | "encode" | "loop" | "done"
    sol,           \* z3::solver of solve_iter: the t0 assignments its
                   \* constraints admit
    i, max,        \* locals of solve_iter
    timeout,       \* `timeout' of solve_iter, in ticks
    anyTable,      \* any.table
    anyRet,        \* value held by the shared state of anyfut
    repr,          \* names of the solver variables init_repr made for
                   \* solve_iter: [ct0, ct1], each cell |-> name; <<>> if none
    minPc,         \* solve task: "idle" | "run" | "done"
    opt,           \* z3::optimize of solve: the t0 assignments that satisfy
                   \* its constraints with the least value of the objective
    minTable,      \* min.table
    minRet,        \* value held by the shared state of minfut
    solver,        \* kissat* solver of the first program's solve: "none"
                   \* before kissat_init, "live" for a handle obtained,
                   \* "released" once kissat_release was called on it,
                   \* "null_released" once it was called on a null pointer
    hist           \* history, read by the properties only

vars == <<n, m, t1, cin, wait_time, pc, wt, ret, anyfut, minfut, anyWait, remaining,
          status, result, anyPc, sol, i, max, timeout, anyTable, anyRet, repr,
          minPc, opt, minTable, minRet, solver, hist>>

inputVars == <<n, m, t1, cin, wait_time>>
orchVars  == <<pc, wt, anyfut, minfut, anyWait, remaining, status, result>>
anyVars   == <<anyPc, sol, i, max, timeout, anyTable, anyRet, repr>>
minVars   == <<minPc, opt, minTable, minRet>>
kissatVars == <<solver>>

\* std::optional<Board> holding no value.
nullopt == [has_value |-> FALSE, table |-> <<>>, from |-> "none"]
\* std::optional<Board> built from a Board; `from' names the local returned.
Some(board, which) == [has_value |-> TRUE, table |-> board, from |-> which]

HistInit ==
    [firstAnswer |-> "none",   \* answer of the first sol.check() of solve_iter
     lastAnswer  |-> "none",   \* answer of its latest sol.check()
     minAnswer   |-> "none",   \* answer of opt.check()
     flagSeen    |-> "none",   \* what if(ret.first) found: "none" | "false" | "true"
     minWaited   |-> FALSE,    \* wait_future was called on minfut
     minReady    |-> FALSE,    \* minfut was ready when launch_tasks stopped looking
     given       |-> 0,        \* the "timeout" parameter of the latest sol.check()
     minGiven    |-> 0,        \* the "timeout" parameter of opt.check()
     elapsed     |-> 0]        \* k of the latest completed time_it block

\* main: std::cin >> n >> m, Board board(n, m), std::cin >> board.
ReadBoard(shapes) ==
    /\ \E d \in shapes : n = d[1] /\ m = d[2]
    /\ t1 \in Tables(n, m)
    /\ cin = [tokens |-> [k \in 1..(n * m) |-> t1[k - 1]], failbit |-> FALSE]

\* What std::cin may hold for a cell: 0, 1, or another integer.
InputValues == {0, 1, 2}

\* operator>>(std::istream&, Matrix<T>&) on a stream holding `tokens': the
\* cells are read row by row; the extraction that finds no value leaves 0 in
\* its cell, sets failbit and ends the reading, the cells after it keeping
\* the 0 of the constructor.
operator_in(tokens, rows, cols) ==
    [table   |-> [k \in 0..(rows * cols - 1) |->
                     IF k < Len(tokens) THEN tokens[k + 1] ELSE 0],
     failbit |-> Len(tokens) < rows * cols]

\* main on any input: std::cin >> n >> m; Board board(n, m);
\* std::cin >> board, whose result main does not look at.
ReadInput(shapes) ==
    \E d \in shapes :
        /\ n = d[1] /\ m = d[2]
        /\ \E len \in 0..(d[1] * d[2]) : \E tokens \in [1..len -> InputValues] :
            LET read == operator_in(tokens, d[1], d[2])
            IN  /\ t1 = read.table
                /\ cin = [tokens |-> tokens, failbit |-> read.failbit]

\* Nothing has run yet.
Untouched ==
    /\ pc = "start"
    /\ wt = 0
    /\ ret = [first |-> FALSE, second |-> FALSE]
    /\ anyfut = "nullopt"
    /\ minfut = "nullopt"
    /\ anyWait = "none"
    /\ remaining = 0
    /\ status = [set |-> FALSE, first |-> FALSE, second |-> FALSE]
    /\ result = nullopt
    /\ sol = {}
    /\ i = 0
    /\ max = 0
    /\ anyTable = Matrix(n, m)
    /\ anyRet = FALSE
    /\ repr = <<>>
    /\ minPc = "idle"
    /\ opt = {}
    /\ minTable = Matrix(n, m)
    /\ minRet = FALSE
    /\ solver = "none"
    /\ hist = HistInit

Init ==
    /\ ReadBoard(Dims)
    /\ wait_time \in 0..MaxWaitTime
    /\ anyPc = "idle"
    /\ timeout = 0
    /\ Untouched

\* A call rgol::solve_iter(t1, t0, timeout, threads, sat) on a fresh t0 and
\* a false sat, outside previous_state.
SolveIterInit ==
    /\ ReadBoard(Shapes(MaxSolverSide, MaxSolverCells))
    /\ wait_time = 0
    /\ anyPc = "encode"
    /\ timeout = MsPerSecond
    /\ Untouched

----
\* The feasibility task: rgol::solve_iter(table, any.table, wait_time - 200,
\* threads, ret.first), run by std::async.

\* The models sol.check() may return after sol.add(total <= max).
BoundedModels(bound) == {ct0 \in sol : total(ct0, n, m) <= bound}

\* A solve_iter whose first bound is one below the number of cells.
SolveIterBeginBelow ==
    /\ anyPc = "encode"
    /\ repr' = Repr(n, m)
    /\ sol' = Satisfying(t1, n, m)
    /\ ret' = [ret EXCEPT !.first = FALSE]
    /\ max' = n * m - 1
    /\ i' = n * m - 1
    /\ anyPc' = "loop"
    /\ UNCHANGED <<inputVars, kissatVars, orchVars, timeout, anyTable, anyRet, minVars, hist>>

\* init_repr, add_clauses, then sat = false; max = t0.n() * t0.m(); int i = max.
SolveIterBegin ==
    /\ anyPc = "encode"
    /\ repr' = Repr(n, m)
    /\ sol' = Satisfying(t1, n, m)
    /\ ret' = [ret EXCEPT !.first = FALSE]
    /\ max' = n * m
    /\ i' = n * m
    /\ anyPc' = "loop"
    /\ UNCHANGED <<inputVars, kissatVars, orchVars, timeout, anyTable, anyRet, minVars, hist>>

\* An accepting branch that lowers max and leaves t0 as it was.
AcceptKeepsT0(ct0) ==
    LET cur == count_ones(ct0, n, m)
    IN  IF cur <= max
          THEN [t0 |-> anyTable, max |-> cur]
          ELSE [t0 |-> anyTable, max |-> max]

\* An accept that asks the next pass for a model with fewer live cells:
\* max = cur - 1.
AcceptBelow(ct0) ==
    LET cur == count_ones(ct0, n, m)
    IN  IF cur <= max
          THEN [t0 |-> fill_t0(ct0, n, m), max |-> cur - 1]
          ELSE [t0 |-> anyTable, max |-> max]

\* What a sat answer with the model ct0 does to t0 and max:
\*   cur = count_ones(st, ct0); if(cur <= max) { fill_t0(st, ct0, t0); max = cur; }
Accept(ct0) ==
    LET cur == count_ones(ct0, n, m)
    IN  IF cur <= max
          THEN [t0 |-> fill_t0(ct0, n, m), max |-> cur]
          ELSE [t0 |-> anyTable, max |-> max]

\* A sat pass whose for statement has no i--.
SolveIterSatSameI ==
    /\ anyPc = "loop"
    /\ i >= 0 /\ timeout # 0
    /\ \E ct0 \in BoundedModels(max) :
        LET accepted == Accept(ct0)
        IN  /\ anyTable' = accepted.t0
            /\ max' = accepted.max
    /\ \E k \in SolverElapsed(timeout) :
        /\ timeout' = time_it(timeout, k)
        /\ hist' = [hist EXCEPT !.firstAnswer = IF @ = "none" THEN "sat" ELSE @,
                                !.lastAnswer = "sat",
                                !.given = timeout,
                                !.elapsed = k]
    /\ ret' = [ret EXCEPT !.first = TRUE]
    /\ i' = i
    /\ UNCHANGED <<inputVars, kissatVars, orchVars, anyPc, sol, anyRet, repr, minVars>>

\* One pass of the loop whose sol.check() answers sat with the model ct0 and
\* takes k ticks: Accept, sat = true, sol.pop(), then time_it's update of
\* timeout and the loop's i--.
SolveIterSat ==
    /\ anyPc = "loop"
    /\ i >= 0 /\ timeout # 0
    /\ \E ct0 \in BoundedModels(max) :
        LET accepted == Accept(ct0)
        IN  /\ anyTable' = accepted.t0
            /\ max' = accepted.max
    /\ \E k \in SolverElapsed(timeout) :
        /\ timeout' = time_it(timeout, k)
        /\ hist' = [hist EXCEPT !.firstAnswer = IF @ = "none" THEN "sat" ELSE @,
                                !.lastAnswer = "sat",
                                !.given = timeout,
                                !.elapsed = k]
    /\ ret' = [ret EXCEPT !.first = TRUE]
    /\ i' = i - 1
    /\ UNCHANGED <<inputVars, kissatVars, orchVars, anyPc, sol, anyRet, repr, minVars>>

\* solve_iter returns: its solver and its locals i and max are gone.
SolveIterReturn ==
    /\ anyPc' = "done"
    /\ anyRet' = ret.first
    /\ sol' = {}
    /\ repr' = <<>>
    /\ i' = 0
    /\ max' = 0

\* A pass whose sol.check() answers unsat: break, then return sat.
SolveIterUnsat ==
    /\ anyPc = "loop"
    /\ i >= 0 /\ timeout # 0
    /\ BoundedModels(max) = {}
    /\ SolveIterReturn
    /\ hist' = [hist EXCEPT !.firstAnswer = IF @ = "none" THEN "unsat" ELSE @,
                            !.lastAnswer = "unsat",
                            !.given = timeout]
    /\ UNCHANGED <<inputVars, kissatVars, orchVars, ret, timeout, anyTable, minVars>>

\* A pass answering unknown that gives up what was found: sat = false
\* before the break.
SolveIterUnknownClearsSat ==
    /\ anyPc = "loop"
    /\ i >= 0 /\ timeout # 0
    /\ anyPc' = "done"
    /\ anyRet' = FALSE
    /\ ret' = [ret EXCEPT !.first = FALSE]
    /\ sol' = {}
    /\ repr' = <<>>
    /\ i' = 0
    /\ max' = 0
    /\ hist' = [hist EXCEPT !.firstAnswer = IF @ = "none" THEN "unknown" ELSE @,
                            !.lastAnswer = "unknown",
                            !.given = timeout]
    /\ UNCHANGED <<inputVars, kissatVars, orchVars, timeout, anyTable, minVars>>

\* A pass whose sol.check() answers unknown (the solver's timeout struck):
\* break, then return sat.
SolveIterUnknown ==
    /\ anyPc = "loop"
    /\ i >= 0 /\ timeout # 0
    /\ SolveIterReturn
    /\ hist' = [hist EXCEPT !.firstAnswer = IF @ = "none" THEN "unknown" ELSE @,
                            !.lastAnswer = "unknown",
                            !.given = timeout]
    /\ UNCHANGED <<inputVars, kissatVars, orchVars, ret, timeout, anyTable, minVars>>

\* The loop condition i >= 0 && timeout fails: return sat.
SolveIterEnd ==
    /\ anyPc = "loop"
    /\ ~(i >= 0 /\ timeout # 0)
    /\ SolveIterReturn
    /\ UNCHANGED <<inputVars, kissatVars, orchVars, ret, timeout, anyTable, minVars, hist>>

----
\* The minimizing task: rgol::solve(table, min.table, wait_time), run by
\* std::async.

\* An optimizer that was given no objective: any model will do.
MinimizeNothing(models, rows, cols) == models

\* init_repr, add_clauses and opt.minimize(total): what the optimizer may
\* return as its model, one in which the value of total is least.
Minimize(models, rows, cols) ==
    LET totals == {total(ct0, rows, cols) : ct0 \in models}
        least == CHOOSE t \in totals : \A u \in totals : t <= u
    IN  {ct0 \in models : total(ct0, rows, cols) = least}

\* A solve that was handed any.table as well and writes its model there too.
SolveSatIntoAny ==
    /\ minPc = "run"
    /\ \E ct0 \in Minimize(opt, n, m) :
        /\ minTable' = fill_t0(ct0, n, m)
        /\ anyTable' = fill_t0(ct0, n, m)
    /\ minRet' = TRUE
    /\ minPc' = "done"
    /\ opt' = {}
    /\ hist' = [hist EXCEPT !.minAnswer = "sat", !.minGiven = wt]
    /\ UNCHANGED <<inputVars, kissatVars, orchVars, ret, anyPc, sol, i, max, timeout, anyRet, repr>>

\* opt.check() == z3::sat: fill_t0, sat = true, return sat.
SolveSat ==
    /\ minPc = "run"
    /\ \E ct0 \in Minimize(opt, n, m) : minTable' = fill_t0(ct0, n, m)
    /\ minRet' = TRUE
    /\ minPc' = "done"
    /\ opt' = {}
    /\ hist' = [hist EXCEPT !.minAnswer = "sat", !.minGiven = wt]
    /\ UNCHANGED <<inputVars, kissatVars, orchVars, ret, anyVars>>

\* opt.check() answers unsat: return false.
SolveUnsat ==
    /\ minPc = "run"
    /\ opt = {}
    /\ minRet' = FALSE
    /\ minPc' = "done"
    /\ opt' = {}
    /\ hist' = [hist EXCEPT !.minAnswer = "unsat", !.minGiven = wt]
    /\ UNCHANGED <<inputVars, kissatVars, orchVars, ret, anyVars, minTable>>

\* opt.check() answers unknown (timeout): return false.
SolveUnknown ==
    /\ minPc = "run"
    /\ minRet' = FALSE
    /\ minPc' = "done"
    /\ opt' = {}
    /\ hist' = [hist EXCEPT !.minAnswer = "unknown", !.minGiven = wt]
    /\ UNCHANGED <<inputVars, kissatVars, orchVars, ret, anyVars, minTable>>

----
\* Board::previous_state and Board::launch_tasks.

\* previous_state up to the call launch_tasks(any, min, 1000 * wait_time),
\* and launch_tasks' ret(false, false).
PreviousStateCall ==
    /\ pc = "start"
    /\ wt' = Unsigned(MsPerSecond * wait_time)
    /\ ret' = [first |-> FALSE, second |-> FALSE]
    /\ pc' = "launch_any"
    /\ UNCHANGED <<inputVars, kissatVars, anyfut, minfut, anyWait, remaining, status, result,
                   anyVars, minVars, hist>>

\* utils::launch_future for solve_iter: std::async starts the task, which is
\* given wait_time - 200 as its timeout.
LaunchAny ==
    /\ pc = "launch_any"
    /\ anyfut' = "valid"
    /\ anyPc' = "encode"
    /\ timeout' = Unsigned(wt - Reserve)
    /\ pc' = "launch_min"
    /\ UNCHANGED <<inputVars, kissatVars, wt, ret, minfut, anyWait, remaining, status, result,
                   sol, i, max, anyTable, anyRet, repr, minVars, hist>>

\* std::async throws std::system_error: launch_future returns std::nullopt.
LaunchAnyFails ==
    /\ pc = "launch_any"
    /\ anyfut' = "nullopt"
    /\ pc' = "launch_min"
    /\ UNCHANGED <<inputVars, kissatVars, wt, ret, minfut, anyWait, remaining, status, result,
                   anyVars, minVars, hist>>

\* Where launch_tasks goes after both launches:
\*   if(anyfut.has_value() && minfut.has_value())
AfterLaunch(a, b) == IF a # "nullopt" /\ b # "nullopt" THEN "wait_any" ELSE "return"

\* utils::launch_future for solve; the task builds its own optimizer from
\* init_repr, add_clauses and opt.minimize before its one opt.check().
LaunchMin ==
    /\ pc = "launch_min"
    /\ minfut' = "valid"
    /\ minPc' = "run"
    /\ opt' = Satisfying(t1, n, m)
    /\ pc' = AfterLaunch(anyfut, "valid")
    /\ UNCHANGED <<inputVars, kissatVars, wt, ret, anyfut, anyWait, remaining, status, result,
                   anyVars, minTable, minRet, hist>>

LaunchMinFails ==
    /\ pc = "launch_min"
    /\ minfut' = "nullopt"
    /\ pc' = AfterLaunch(anyfut, "nullopt")
    /\ UNCHANGED <<inputVars, kissatVars, wt, ret, anyfut, anyWait, remaining, status, result,
                   anyVars, minVars, hist>>

\* utils::wait_future(anyfut.value(), milliseconds(wait_time)) with a zero
\* duration: std::nullopt at once, the future is not looked at.
WaitAnyZero ==
    /\ pc = "wait_any"
    /\ wt = 0
    /\ anyWait' = "skipped"
    /\ pc' = "read_first"
    /\ UNCHANGED <<inputVars, kissatVars, wt, ret, anyfut, minfut, remaining, status, result,
                   anyVars, minVars, hist>>

\* ... with a non-zero duration and the task finished before it ends:
\* wait_for is ready and future.get() empties the future.
WaitAnyReady ==
    /\ pc = "wait_any"
    /\ wt # 0
    /\ anyPc = "done"
    /\ anyWait' = "ready"
    /\ anyfut' = "retrieved"
    /\ pc' = "read_first"
    /\ UNCHANGED <<inputVars, kissatVars, wt, ret, minfut, remaining, status, result,
                   anyVars, minVars, hist>>

\* ... with a non-zero duration that runs out while solve_iter is running.
WaitAnyExpires ==
    /\ pc = "wait_any"
    /\ wt # 0
    /\ anyPc # "done"
    /\ anyWait' = "expired"
    /\ pc' = "read_first"
    /\ UNCHANGED <<inputVars, kissatVars, wt, ret, anyfut, minfut, remaining, status, result,
                   anyVars, minVars, hist>>

\* What steady_clock may measure between `start' and line 94, in ticks: at
\* most wait_time if the wait ended ready, at least wait_time if it expired.
WaitElapsed ==
    CASE anyWait = "ready"   -> {wt \div 5, wt}
      [] anyWait = "expired" -> {wt, wt + 1}
      [] OTHER               -> {0, 1}

\* wait_time - elapsed taken as an unsigned, with no test.
RemainingUnsigned(total_time, elapsed) == Unsigned(total_time - elapsed)

\* wait_time > elapsed ? wait_time - elapsed : 0, where wait_time is an
\* unsigned and elapsed a long long: the test and the difference are taken
\* in long long.
Remaining(total_time, elapsed) ==
    IF total_time > elapsed THEN total_time - elapsed ELSE 0

\* A launch_tasks that waits for minfut whatever ret.first holds.
ReadFirstUngated ==
    /\ pc = "read_first"
    /\ \E elapsed \in WaitElapsed : remaining' = Remaining(wt, elapsed)
    /\ pc' = "wait_min"
    /\ hist' = [hist EXCEPT !.flagSeen = IF ret.first THEN "true" ELSE "false"]
    /\ UNCHANGED <<inputVars, kissatVars, wt, ret, anyfut, minfut, anyWait, status, result,
                   anyVars, minVars>>

\* The outer and the inner if(ret.first) of launch_tasks; on true, elapsed is
\* measured and the duration of the wait on minfut computed.
ReadFirst ==
    /\ pc = "read_first"
    /\ IF ret.first
         THEN /\ \E elapsed \in WaitElapsed : remaining' = Remaining(wt, elapsed)
              /\ pc' = "wait_min"
              /\ hist' = [hist EXCEPT !.flagSeen = "true"]
         ELSE /\ pc' = "return"
              /\ hist' = [hist EXCEPT !.flagSeen = "false",
                                      !.minReady = minPc = "done"]
              /\ UNCHANGED remaining
    /\ UNCHANGED <<inputVars, kissatVars, wt, ret, anyfut, minfut, anyWait, status, result,
                   anyVars, minVars>>

\* utils::wait_future(minfut.value(), ...) with a zero duration.
WaitMinZero ==
    /\ pc = "wait_min"
    /\ remaining = 0
    /\ hist' = [hist EXCEPT !.minWaited = TRUE, !.minReady = minPc = "done"]
    /\ pc' = "return"
    /\ UNCHANGED <<inputVars, kissatVars, wt, ret, anyfut, minfut, anyWait, remaining, status,
                   result, anyVars, minVars>>

\* ... ready within the duration: ret.second = minopt.value().
WaitMinReady ==
    /\ pc = "wait_min"
    /\ remaining # 0
    /\ minPc = "done"
    /\ minfut' = "retrieved"
    /\ ret' = [ret EXCEPT !.second = minRet]
    /\ hist' = [hist EXCEPT !.minWaited = TRUE, !.minReady = TRUE]
    /\ pc' = "return"
    /\ UNCHANGED <<inputVars, kissatVars, wt, anyfut, anyWait, remaining, status, result,
                   anyVars, minVars>>

\* ... the duration runs out while solve is running.
WaitMinExpires ==
    /\ pc = "wait_min"
    /\ remaining # 0
    /\ minPc # "done"
    /\ hist' = [hist EXCEPT !.minWaited = TRUE, !.minReady = FALSE]
    /\ pc' = "return"
    /\ UNCHANGED <<inputVars, kissatVars, wt, ret, anyfut, minfut, anyWait, remaining, status,
                   result, anyVars, minVars>>

\* return ret, when the pair is copied into the caller's object before the
\* locals are destroyed.
ReturnCopy ==
    /\ pc = "return"
    /\ status' = [set |-> TRUE, first |-> ret.first, second |-> ret.second]
    /\ pc' = "destroy_minfut"
    /\ UNCHANGED <<inputVars, kissatVars, wt, ret, anyfut, minfut, anyWait, remaining, result,
                   anyVars, minVars, hist>>

\* return ret, when ret is built in the caller's object (the copy is elided):
\* the caller sees what ret holds once the locals are destroyed.
ReturnElided ==
    /\ pc = "return"
    /\ pc' = "destroy_minfut"
    /\ UNCHANGED <<inputVars, kissatVars, wt, ret, anyfut, minfut, anyWait, remaining, status,
                   result, anyVars, minVars, hist>>

\* ~optional<future<bool>> of minfut: the destructor of a future that
\* std::async made and that still holds its shared state waits for the task.
DestroyMinfut ==
    /\ pc = "destroy_minfut"
    /\ minfut = "valid" => minPc = "done"
    /\ pc' = "destroy_anyfut"
    /\ UNCHANGED <<inputVars, kissatVars, wt, ret, anyfut, minfut, anyWait, remaining, status,
                   result, anyVars, minVars, hist>>

\* A destructor of anyfut that returns while solve_iter is running, as the
\* destructor of a future not made by std::async does.
DestroyAnyfutNoWait ==
    /\ pc = "destroy_anyfut"
    /\ status' = IF status.set THEN status
                 ELSE [set |-> TRUE, first |-> ret.first, second |-> ret.second]
    /\ pc' = "select"
    /\ UNCHANGED <<inputVars, kissatVars, wt, ret, anyfut, minfut, anyWait, remaining, result,
                   anyVars, minVars, hist>>

\* ~optional<future<bool>> of anyfut, and the end of launch_tasks.
DestroyAnyfut ==
    /\ pc = "destroy_anyfut"
    /\ anyfut = "valid" => anyPc = "done"
    /\ status' = IF status.set THEN status
                 ELSE [set |-> TRUE, first |-> ret.first, second |-> ret.second]
    /\ pc' = "select"
    /\ UNCHANGED <<inputVars, kissatVars, wt, ret, anyfut, minfut, anyWait, remaining, result,
                   anyVars, minVars, hist>>

\* The end of previous_state:
\*   if(!status.first) return unsat; else if(status.second) return min;
\*   return any;
Select(st, unsat_board, any_board, min_board) ==
    IF ~st.first THEN Some(unsat_board, "unsat")
    ELSE IF st.second THEN Some(min_board, "min")
    ELSE Some(any_board, "any")

PreviousStateReturn ==
    /\ pc = "select"
    /\ result' = Select(status, Matrix(n, m), anyTable, minTable)
    /\ pc' = "done"
    /\ UNCHANGED <<inputVars, kissatVars, wt, ret, anyfut, minfut, anyWait, remaining, status,
                   anyVars, minVars, hist>>

\* operator<<(std::ostream&, const std::optional<Board>&): what main prints.
operator_out(o) ==
    IF o.has_value THEN [board |-> o.table, text |-> ""]
    ELSE [board |-> <<>>, text |-> "No solution found."]

----
SolveIter ==
    SolveIterBegin \/ SolveIterSat \/ SolveIterUnsat \/ SolveIterUnknown \/ SolveIterEnd

Solve == SolveSat \/ SolveUnsat \/ SolveUnknown

LaunchTasks ==
    \/ LaunchAny \/ LaunchAnyFails \/ LaunchMin \/ LaunchMinFails
    \/ WaitAnyZero \/ WaitAnyReady \/ WaitAnyExpires
    \/ ReadFirst
    \/ WaitMinZero \/ WaitMinReady \/ WaitMinExpires
    \/ ReturnCopy \/ ReturnElided \/ DestroyMinfut \/ DestroyAnyfut

Next == PreviousStateCall \/ LaunchTasks \/ PreviousStateReturn \/ SolveIter \/ Solve

Spec == Init /\ [][Next]_vars

\* main on inputs of any kind for boards of at most MaxInputCells cells.
MainInit ==
    /\ ReadInput(Shapes(MaxInputCells, MaxInputCells))
    /\ wait_time \in 0..MaxWaitTime
    /\ anyPc = "idle"
    /\ timeout = 0
    /\ Untouched

MainSpec == MainInit /\ [][Next]_vars

\* The encoding step of solve_iter alone.
EncodeSpec == SolveIterInit /\ [][SolveIterBegin]_vars

\* solve_iter called on boards with at most MaxLiveAtT1 live cells (the
\* all-dead boards among them), run to its return.
SparseBoardInit == SolveIterInit /\ LiveCells(t1) <= MaxLiveAtT1
SparseBoardSpec == SparseBoardInit /\ [][SolveIter]_vars

\* solve_iter called with a budget of 0..MaxBudget ticks on boards of at
\* most MaxCells cells, run to its return.
BudgetInit ==
    /\ ReadBoard(Shapes(MaxSolverSide, MaxCells))
    /\ wait_time = 0
    /\ anyPc = "encode"
    /\ timeout \in 0..MaxBudget
    /\ Untouched
BudgetSpec == BudgetInit /\ [][SolveIter]_vars

\* The same, the thread of solve_iter being scheduled for as long as it has
\* a step to take and every call of sol.check() returning.
TerminationSpec == BudgetInit /\ [][SolveIter]_vars /\ WF_vars(SolveIter)

\* init_repr alone, on grids of up to MaxNameSide rows and columns; the names
\* it gives do not depend on the cells of t1.
InitReprInit ==
    /\ n \in 1..MaxNameSide /\ m \in 1..MaxNameSide
    /\ t1 = Matrix(n, m)
    /\ cin = [tokens |-> [k \in 1..(n * m) |-> 0], failbit |-> FALSE]
    /\ wait_time = 0
    /\ anyPc = "encode"
    /\ timeout = MsPerSecond
    /\ Untouched

InitRepr ==
    /\ anyPc = "encode"
    /\ repr = <<>>
    /\ repr' = Repr(n, m)
    /\ UNCHANGED <<inputVars, kissatVars, orchVars, ret, anyPc, sol, i, max, timeout, anyTable,
                   anyRet, minVars, hist>>

InitReprSpec == InitReprInit /\ [][InitRepr]_vars

----
\* The first program of the repository (C, Kissat): board.c, tmp/solveee.c.
\* A Board's table holds one literal per cell: the variable of the cell,
\* negated when the cell is dead at t1.

Abs(x) == IF x < 0 THEN -x ELSE x

\* board_read: ind = i * board->n + j + 1
ind(rows, ci, cj) == ci * rows + cj + 1

\* board_read: table[i][j] = (v == 0 ? -ind : ind), for the cells read as tab.
board_read(tab, rows, cols) ==
    [k \in 0..(rows * cols - 1) |->
        LET id == ind(rows, k \div cols, k % cols)
        IN  IF tab[k] = 0 THEN -id ELSE id]

\* The variables of a board, and the assignments a solver may give them.
KissatVars(rows, cols) == {ind(rows, k \div cols, k % cols) : k \in 0..(rows * cols - 1)}
KissatAssignments(rows, cols) == [KissatVars(rows, cols) -> BOOLEAN]

\* neigh_init of solveee.c: x and y are size_t, so a coordinate below zero
\* wraps to a large one and fails x < b->n; neigh[k] is the variable of the
\* neighbour, 0 where there is none.
neigh_init(b, rows, cols, ci, cj) ==
    [k \in 1..8 |->
        LET x == Unsigned(ci + off[k][1])
            y == Unsigned(cj + off[k][2])
        IN  IF x < rows /\ y < cols THEN Abs(At(b, cols, x, y)) ELSE 0]

\* The value of an unsigned converted to int.
Signed(u) == IF u >= Wrap \div 2 THEN u - Wrap ELSE u

\* neigh_init of solve.c: x and y are ints, (int)(i + pos[k][0]) and
\* (int)(j + pos[k][1]), the sums being taken in size_t; the cells that pass
\* (x >= 0 && x < (int)b->n) && (y >= 0 && y < (int)b->m) are stored one
\* after the other, neigh[(*n)++] = abs(b->table[x][y]), and *n counts them.
solve_neigh_init(b, rows, cols, ci, cj) ==
    LET pos == [k \in 1..8 |-> <<Signed(Unsigned(ci + off[k][1])),
                                 Signed(Unsigned(cj + off[k][2]))>>]
        InRange(c) == (c[1] >= 0 /\ c[1] < rows) /\ (c[2] >= 0 /\ c[2] < cols)
        hits == SelectSeq(pos, InRange)
    IN  [k \in 1..Len(hits) |-> Abs(At(b, cols, hits[k][1], hits[k][2]))]

\* The positions of neigh that hold a neighbour: skip(!neigh[i]).
Present(neigh) == {k \in 1..8 : neigh[k] # 0}

\* A clause is the set of literals added up to a kissat_add(solver, 0).
dead_no_neigh(neigh, curr) == {{-neigh[k] : k \in Present(neigh)}}

dead_one_neigh(neigh, curr) ==
    {{-neigh[k]} \cup {neigh[l] : l \in Present(neigh) \ {k}} : k \in Present(neigh)}

\* dead: dead_no_neigh and dead_one_neigh (the call of dead_two_neigh is
\* commented out).
dead(neigh, curr) == dead_no_neigh(neigh, curr) \cup dead_one_neigh(neigh, curr)

life(neigh, curr) ==
    {{Abs(curr), neigh[p[1]], neigh[p[2]]}
        \cup {-neigh[k] : k \in Present(neigh) \ {p[1], p[2]}} :
     p \in {q \in Present(neigh) \X Present(neigh) : q[1] < q[2]}}

\* add_clauses of solveee.c: the clauses it hands to the solver.
kissat_add_clauses(b, rows, cols) ==
    UNION {LET curr == b[k]
               neigh == neigh_init(b, rows, cols, k \div cols, k % cols)
           IN  IF curr > 0 THEN life(neigh, curr) ELSE dead(neigh, curr) :
           k \in 0..(rows * cols - 1)}

\* A literal, a clause under an assignment of the variables.
LiteralHolds(val, lit) == IF lit > 0 THEN val[lit] ELSE ~val[-lit]
ClauseHolds(val, clause) == \E lit \in clause : LiteralHolds(val, lit)

\* The assignments kissat_solve may end on: those satisfying every clause.
KissatModels(b, rows, cols) ==
    LET clauses == kissat_add_clauses(b, rows, cols)
        pairs == {a \in KissatAssignments(rows, cols) \X {clauses} :
                     \A c \in a[2] : ClauseHolds(a[1], c)}
    IN  {a[1] : a \in pairs}

\* fill_result_board: r->table[i][j] = kissat_value(solver, abs(b->table[i][j])),
\* the variable when it is true and its negation when it is false.
fill_result_board(val, b, rows, cols) ==
    [k \in 0..(rows * cols - 1) |-> IF val[Abs(b[k])] THEN Abs(b[k]) ELSE -Abs(b[k])]

\* board_print: table[i][j] > 0 ? 1 : 0
board_print(r, rows, cols) == [k \in 0..(rows * cols - 1) |-> IF r[k] > 0 THEN 1 ELSE 0]

\* solve of solveee.c, up to kissat_solve: kissat_init and add_clauses.
KissatAddClauses ==
    /\ pc = "start"
    /\ solver' = "live"
    /\ sol' = KissatModels(board_read(t1, n, m), n, m)
    /\ pc' = "kissat_solve"
    /\ UNCHANGED <<inputVars, wt, ret, anyfut, minfut, anyWait, remaining, status,
                   result, anyPc, i, max, timeout, anyTable, anyRet, repr, minVars,
                   hist>>

\* kissat_solve(solver) == 10: fill_result_board and return 1.
KissatSolveSat ==
    /\ pc = "kissat_solve"
    /\ \E val \in sol :
        result' = Some(fill_result_board(val, board_read(t1, n, m), n, m), "kissat")
    /\ sol' = {}
    /\ pc' = "done"
    /\ UNCHANGED solver
    /\ UNCHANGED <<inputVars, wt, ret, anyfut, minfut, anyWait, remaining, status,
                   anyPc, i, max, timeout, anyTable, anyRet, repr, minVars, hist>>

\* kissat_solve(solver) == 20: kissat_release and return 0.
KissatSolveUnsat ==
    /\ pc = "kissat_solve"
    /\ sol = {}
    /\ result' = nullopt
    /\ solver' = "released"
    /\ pc' = "done"
    /\ UNCHANGED <<inputVars, wt, ret, anyfut, minfut, anyWait, remaining, status,
                   anyPc, sol, i, max, timeout, anyTable, anyRet, repr, minVars,
                   hist>>

\* kissat_init returns a null pointer: if(solver) is skipped, and solve goes
\* on to kissat_release(solver) and return 0.
KissatInitFails ==
    /\ pc = "start"
    /\ solver' = "null_released"
    /\ result' = nullopt
    /\ pc' = "done"
    /\ UNCHANGED <<inputVars, wt, ret, anyfut, minfut, anyWait, remaining, status,
                   anyPc, sol, i, max, timeout, anyTable, anyRet, repr, minVars,
                   hist>>

KissatSolve ==
    KissatAddClauses \/ KissatInitFails \/ KissatSolveSat \/ KissatSolveUnsat

\* The first program: main reads the board with board_read and calls solve.
KissatInit ==
    /\ ReadBoard(Dims)
    /\ wait_time = 0
    /\ anyPc = "idle"
    /\ timeout = 0
    /\ Untouched

KissatSpec == KissatInit /\ [][KissatSolve]_vars

\* The same program on the boards of up to MaxReadCells cells.
BoardReadInit ==
    /\ ReadBoard(Shapes(MaxSolverSide, MaxReadCells))
    /\ wait_time = 0
    /\ anyPc = "idle"
    /\ timeout = 0
    /\ Untouched

BoardReadSpec == BoardReadInit /\ [][KissatSolve]_vars

----
\* Properties.

Done == pc = "done"

\* t1 is Life of some board of its shape.
HasPredecessor == \E g \in Tables(n, m) : Life(g, n, m) = t1

\* C1: round trip.  When previous_state has returned for a board t1 that is
\* Life of some board, both tasks were launched, every solver call answered
\* sat or unsat and the budget of solve_iter never ran out, the board
\* returned is a predecessor of t1.
C1_RoundTrip ==
    (/\ Done
     /\ anyfut # "nullopt" /\ minfut # "nullopt"
     /\ hist.lastAnswer # "unknown" /\ hist.minAnswer # "unknown"
     /\ timeout # 0
     /\ HasPredecessor)
    => (result.has_value /\ Life(result.table, n, m) = t1)

\* C2: when solve_iter has ended without accepting any model, previous_state
\* returns std::nullopt and main prints "No solution found.".
C2_FailureIsNullopt ==
    (Done /\ anyPc = "done" /\ ~anyRet)
    => (result = nullopt /\ operator_out(result).text = "No solution found.")

\* C3: when solve_iter has run init_repr and add_clauses, an assignment of
\* the t0 variables satisfies the solver's constraints exactly when the board
\* it stands for has t1 as its Life.
C3_EncodingIsLife ==
    [][(anyPc = "encode" /\ anyPc' = "loop")
         => \A ct0 \in Assignments(n, m) :
               (ct0 \in sol') <=> IsPredecessor(fill_t0(ct0, n, m), t1, n, m)]_vars

\* A 3 x 3 board with a live cell, one of whose predecessors has more than
\* three live cells around its middle cell.
C3_Witness ==
    /\ anyPc = "loop" /\ hist.firstAnswer = "none"
    /\ n = 3 /\ m = 3
    /\ \E k \in DOMAIN t1 : t1[k] = 1
    /\ \E ct0 \in sol : neigh_sum(ct0, n, m, 1, 1) > 3

\* C4: monotonic improvement.  Each model solve_iter accepts after the first
\* has strictly fewer live cells than the one accepted before it.
C4_StrictlyFewer ==
    [][(anyPc = "loop" /\ anyPc' = "loop" /\ ret.first /\ i' = i - 1)
         => LiveCells(anyTable') < LiveCells(anyTable)]_vars

\* C5: result selection.  When if(ret.first) found that solve_iter had
\* reported a model, the board returned is min's exactly when the minimizing
\* task was ready by the end of the remaining time and returned true, and
\* any's otherwise.
C5_Selection ==
    (Done /\ hist.flagSeen = "true")
    => /\ (result.from = "min") <=> (hist.minReady /\ minRet)
       /\ result.from # "min" => result = Some(anyTable, "any")

\* C6: gating.  wait_future is called on minfut only after if(ret.first)
\* found the flag true; otherwise ret.second stays false and previous_state
\* does not return min.
C6_Gating ==
    /\ hist.minWaited => (hist.flagSeen = "true" /\ ret.first)
    /\ hist.flagSeen # "true" => (~ret.second /\ ~status.second)
    /\ hist.flagSeen # "true" => result.from # "min"

\* The flag was found false, the minimizing task did finish with a model, and
\* previous_state returned without having consulted it.
C6_Witness ==
    /\ Done
    /\ hist.flagSeen = "false"
    /\ minPc = "done" /\ minRet
    /\ ~hist.minWaited /\ ~ret.second /\ result.from # "min"

\* C7: abandonment does not block.  Once solve_iter has reported
\* unsatisfiable, launch_tasks can always take its next step towards its
\* return, whether or not the minimizing task has finished.
C7_NeverBlocks ==
    (pc = "destroy_minfut" /\ anyPc = "done" /\ hist.firstAnswer = "unsat")
    => ENABLED DestroyMinfut

\* C8: join before decision.  launch_tasks reads ret.first only when
\* solve_iter has finished.
C8_JoinBeforeRead == pc = "read_first" => anyPc = "done"

\* C9: minimality.  When both tasks are over and solve returned true, no
\* board with fewer live cells than min is a predecessor of t1, and min has
\* no more live cells than any's board if solve_iter accepted a model.
C9_Minimality ==
    (Done /\ minPc = "done" /\ minRet)
    => /\ \A g \in Tables(n, m) :
            LiveCells(g) < LiveCells(minTable) => Life(g, n, m) # t1
       /\ anyRet => LiveCells(minTable) <= LiveCells(anyTable)

\* The feasibility strategy's last model is not minimal and min's is smaller.
C9_Witness ==
    /\ Done /\ minPc = "done" /\ minRet
    /\ anyPc = "done" /\ anyRet
    /\ LiveCells(minTable) < LiveCells(anyTable)

\* What solve_iter, launch_tasks and previous_state produce.
Outcome == <<anyRet, ret, status, result>>

\* What they produce when the first sol.check() answers unsat.
UnsatOutcome ==
    << FALSE,
       [first |-> FALSE, second |-> FALSE],
       [set |-> TRUE, first |-> FALSE, second |-> FALSE],
       Some(Matrix(n, m), "unsat") >>

\* C10: a first sol.check() that times out with no model found leaves values
\* that differ from those a first answer of unsat leaves.
C10_Distinguishable ==
    (Done /\ hist.firstAnswer = "unknown") => Outcome # UnsatOutcome

\* C11: a minimizing task that could not be launched counts as a timeout of
\* that task only: when solve_iter found a model, previous_state returns the
\* grid of the feasibility strategy.
C11_MinFailureIsTimeout ==
    (Done /\ wait_time > 0 /\ anyfut # "nullopt" /\ minfut = "nullopt" /\ anyRet)
        => result = Some(anyTable, "any")

\* A pass of solve_iter's loop that populates t0 from a model of the solver:
\* the sat branch with cur <= max, which calls fill_t0.
PopulatesT0 ==
    /\ anyPc = "loop" /\ anyPc' = "loop" /\ i' = i - 1
    /\ \E ct0 \in BoundedModels(max) :
        /\ count_ones(ct0, n, m) <= max
        /\ anyTable' = fill_t0(ct0, n, m)

\* C12: each strategy writes its output grid once per request: a pass of
\* solve_iter that populates t0 is the first pass of that run to answer sat
\* (sat is still false), and solve populates its grid only in the one step
\* that ends it.
C12_WrittenOnce ==
    [][/\ PopulatesT0 => ~ret.first
       /\ minTable' # minTable => (minPc = "run" /\ minPc' = "done")]_vars

\* A step taken by the feasibility task, and one taken by the minimizing task.
SolveIterStep == anyPc \in {"encode", "loop"} /\ (anyPc' # anyPc \/ i' # i)
SolveStep == minPc = "run" /\ minPc' = "done"

\* C13: the two tasks share no mutable state: a step of solve_iter leaves
\* alone the board at t1, everything of solve (its optimizer, min.table, its
\* result) and of launch_tasks except the flag ret.first; a step of solve
\* leaves alone the board at t1, everything of solve_iter (its solver, its
\* locals, any.table, its result), the pair ret and launch_tasks' locals.
C13_NoSharedState ==
    [][/\ SolveIterStep =>
            /\ UNCHANGED <<inputVars, kissatVars, orchVars, minVars>>
            /\ ret'.second = ret.second
       /\ SolveStep => UNCHANGED <<inputVars, kissatVars, orchVars, anyVars, ret>>]_vars

\* solve finished with a model while solve_iter, having written any.table
\* and its flag, is still in its loop.
C13_Witness ==
    /\ anyPc = "loop" /\ ret.first
    /\ minPc = "done" /\ minRet
    /\ hist.firstAnswer = "sat" /\ hist.minAnswer = "sat"

\* C14 as stated: the number of neighbours counted for any cell of any grid
\* with rows >= 1 and cols >= 1 is between 3 and 8.
C14_ThreeToEight ==
    \A ci \in 0..(n - 1), cj \in 0..(m - 1) : NeighbourCount(n, m, ci, cj) \in 3..8

\* C14, amended: the number of neighbours counted is between 0 and 8 on every
\* grid; on grids with at least 2 rows and 2 columns it is between 3 and 8,
\* 3 at the corners; it is 8 for every interior cell.
C14_NeighbourRange ==
    \A ci \in 0..(n - 1), cj \in 0..(m - 1) :
        LET counted == NeighbourCount(n, m, ci, cj)
            corner == ci \in {0, n - 1} /\ cj \in {0, m - 1}
            interior == (0 < ci /\ ci < n - 1) /\ (0 < cj /\ cj < m - 1)
        IN  /\ counted \in 0..8
            /\ (n >= 2 /\ m >= 2) => counted \in 3..8
            /\ (n >= 2 /\ m >= 2 /\ corner) => counted = 3
            /\ interior => counted = 8

\* The encoding of a grid with corners and an interior cell has been built.
C14_Witness ==
    /\ n >= 3 /\ m >= 3
    /\ anyPc = "loop"
    /\ NeighbourCount(n, m, 0, 0) = 3
    /\ NeighbourCount(n, m, 1, 1) = 8

\* C15: on a 1x1 grid the constraints of solve_iter admit the dead t0 when t1
\* is dead and admit nothing when t1 is alive; with a solver that answers
\* its first call, solve_iter returns true in the first case and returns
\* false upon the unsat answer of its first call in the second.
C15_OneByOne ==
    (n = 1 /\ m = 1) =>
        /\ anyPc = "loop" =>
              IF t1[0] = 0 THEN [k \in 0..0 |-> FALSE] \in sol ELSE sol = {}
        /\ (anyPc = "done" /\ hist.firstAnswer # "unknown") =>
              IF t1[0] = 0
                THEN anyRet /\ hist.firstAnswer = "sat"
                ELSE ~anyRet /\ hist.firstAnswer = "unsat"
                             /\ hist.lastAnswer = "unsat"

\* solve_iter has returned from the 1x1 alive board after an unsat answer.
C15_Witness ==
    /\ n = 1 /\ m = 1 /\ t1[0] = 1
    /\ anyPc = "done" /\ hist.firstAnswer = "unsat" /\ ~anyRet

\* The first pass of solve_iter's loop on the all-dead 3x3 board answers sat.
FirstPassOnDead3x3 ==
    /\ n = 3 /\ m = 3 /\ t1 = Matrix(3, 3)
    /\ anyPc = "loop" /\ anyPc' = "loop"
    /\ i = n * m /\ i' = i - 1

\* C16 as stated: on the all-dead 3x3 board the model accepted in the first
\* pass is the all-dead t0, whichever model the solver returns.
C16_FirstPassAllDead == [][FirstPassOnDead3x3 => anyTable' = Matrix(3, 3)]_vars

\* C16, amended: on the all-dead 3x3 board the all-dead t0 is among the
\* models the solver may return in the first pass, and whichever model it
\* returns is accepted: t0 then holds a predecessor of t1 with at most
\* rows*cols live cells, max is its number of live cells and sat is true.
C16_FirstPassAccepts ==
    [][FirstPassOnDead3x3 =>
          /\ [k \in 0..8 |-> FALSE] \in BoundedModels(max)
          /\ Life(anyTable', n, m) = t1
          /\ LiveCells(anyTable') <= n * m
          /\ max' = LiveCells(anyTable')
          /\ ret'.first]_vars

\* The first pass on the all-dead 3x3 board accepted a t0 with live cells.
C16_Witness ==
    /\ n = 3 /\ m = 3 /\ t1 = Matrix(3, 3)
    /\ anyPc = "loop" /\ i = n * m - 1
    /\ ret.first /\ LiveCells(anyTable) > 0

\* The t0 grid an assignment of the variables of the first program stands for.
KissatGrid(val, rows, cols) ==
    [k \in 0..(rows * cols - 1) |->
        IF val[ind(rows, k \div cols, k % cols)] THEN 1 ELSE 0]

\* C17: the flat clauses of the first program are equivalent to the rule:
\* for every t1 and every assignment of the t0 variables, the clauses that
\* add_clauses emits (life for the cells alive at t1, dead for the others)
\* all hold exactly when t1 = Life(t0).
C17_KissatIsLife ==
    [][(pc = "start" /\ pc' = "kissat_solve") =>
          \A val \in KissatAssignments(n, m) :
              (val \in sol') <=> (Life(KissatGrid(val, n, m), n, m) = t1)]_vars

\* C18: init_repr maps cells to solver variables injectively: distinct cells
\* get distinct t0 names, distinct cells get distinct t1 names, and no t0
\* name is a t1 name.
C18_NamesInjective ==
    repr # <<>> =>
        \A c \in DOMAIN repr.ct0 : \A d \in DOMAIN repr.ct0 :
            /\ c # d => (repr.ct0[c] # repr.ct0[d] /\ repr.ct1[c] # repr.ct1[d])
            /\ repr.ct0[c] # repr.ct1[d]

\* The variables of a grid with the cells (1, 11) and (11, 1) have been made.
C18_Witness ==
    /\ n >= 12 /\ m >= 12
    /\ repr # <<>>
    /\ repr.ct0[1 * m + 11] = <<"t", "0", "_", "1", "_", "1", "1">>
    /\ repr.ct0[11 * m + 1] = <<"t", "0", "_", "1", "1", "_", "1">>

\* C19: element access fails fast: on a matrix of n rows and m columns,
\* operator() throws std::out_of_range and returns no element for every
\* (i, j) with i >= n or j >= m, and returns element i*m + j of the storage,
\* without throwing, for every (i, j) with i < n and j < m.
C19_FailFast ==
    \A ci \in 0..(n + 1), cj \in 0..(m + 1) :
        /\ (ci >= n \/ cj >= m) => at(n, m, ci, cj) = [thrown |-> "std::out_of_range"]
        /\ (ci < n /\ cj < m) => at(n, m, ci, cj) = [ref |-> ci * m + cj]

\* init_repr has gone through the cells of a matrix of 2 rows and 3 columns,
\* whose last element is the sixth of the storage and which has no row 2.
C19_Witness ==
    /\ n = 2 /\ m = 3 /\ anyPc = "loop"
    /\ at(n, m, 1, 2) = [ref |-> 5]
    /\ at(n, m, 2, 0) = [thrown |-> "std::out_of_range"]
    /\ at(n, m, 0, 3) = [thrown |-> "std::out_of_range"]

\* The input is malformed: it held fewer than rows*cols cell values, or a
\* cell value other than 0 and 1.
Malformed == cin.failbit \/ \E k \in DOMAIN t1 : t1[k] \notin {0, 1}

\* C20: malformed input never reaches the solver: no sol.check() and no
\* opt.check() is made on a board read from a malformed input.
C20_MalformedRejected ==
    Malformed => (hist.firstAnswer = "none" /\ hist.minAnswer = "none")

\* C21: the first solver call of solve_iter is made under the bound
\* rows*cols, which no t0 assignment exceeds; when that call answers unsat
\* no predecessor exists, and solve_iter returns false with that one call
\* made and t0 as it was on entry.
C21_FirstUnsat ==
    [][/\ (anyPc = "loop" /\ hist.firstAnswer = "none") =>
            /\ max = n * m
            /\ \A ct0 \in Assignments(n, m) : total(ct0, n, m) <= max
       /\ (anyPc = "loop" /\ hist.firstAnswer = "none"
             /\ hist'.firstAnswer = "unsat") =>
            /\ \A g \in Tables(n, m) : Life(g, n, m) # t1
            /\ anyPc' = "done" /\ ~anyRet'
            /\ hist'.lastAnswer = "unsat"
            /\ anyTable' = anyTable /\ anyTable' = Matrix(n, m)]_vars

\* solve_iter has returned after an unsat first answer on a board of
\* several cells.
C21_Witness ==
    /\ n * m > 1
    /\ anyPc = "done" /\ hist.firstAnswer = "unsat" /\ ~anyRet

\* C22: the bound max of solve_iter never increases: it starts at rows*cols,
\* and every accepted model has a number of live cells that is at most the
\* bound in force when it was found and at most that of the model accepted
\* before it (hence of every earlier one), max being that number from then on.
C22_BoundNeverIncreases ==
    [][/\ (anyPc = "encode" /\ anyPc' = "loop") => max' = n * m
       /\ (anyPc = "loop" /\ anyPc' = "loop") => max' <= max
       /\ (anyPc = "loop" /\ ret.first) => max = LiveCells(anyTable)
       /\ PopulatesT0 =>
            /\ LiveCells(anyTable') <= max
            /\ max' = LiveCells(anyTable')
            /\ ret.first => LiveCells(anyTable') <= LiveCells(anyTable)]_vars

\* Two models have been accepted on a 3x3 board, the second with fewer live
\* cells than the bound the loop started from.
C22_Witness ==
    /\ n = 3 /\ m = 3
    /\ anyPc = "loop" /\ i = n * m - 2 /\ ret.first
    /\ max < n * m /\ max > 0

\* A pass of solve_iter's loop whose sol.check() answers unsat or unknown.
NotSatAnswer ==
    /\ anyPc = "loop"
    /\ hist.lastAnswer \in {"none", "sat"}
    /\ hist'.lastAnswer \in {"unsat", "unknown"}

\* C23: a solver call of solve_iter that answers anything but sat ends the
\* loop, no solver call follows it, and t0 and the sat flag keep what the
\* last sat call left in them: the t0 of entry and false if there was none.
C23_StopKeepsBest ==
    [][/\ NotSatAnswer =>
            /\ anyPc' = "done"
            /\ anyTable' = anyTable
            /\ ret' = ret /\ anyRet' = ret.first
            /\ hist.lastAnswer = "none" => (anyTable' = Matrix(n, m) /\ ~anyRet')
            /\ hist.lastAnswer = "sat" => anyRet'
       /\ anyPc = "done" => (anyPc' = "done" /\ hist'.lastAnswer = hist.lastAnswer)]_vars

\* solve_iter has returned true on a solver timeout that followed a sat
\* answer, t0 holding the model accepted before it.
C23_Witness ==
    /\ anyPc = "done" /\ anyRet
    /\ hist.firstAnswer = "sat" /\ hist.lastAnswer = "unknown"
    /\ LiveCells(anyTable) > 0

\* A pass of solve_iter's loop: one call of sol.check().
SolverCall == anyPc = "loop" /\ (anyPc' = "loop" \/ NotSatAnswer)

\* A pass of the loop that ran to the end of its time_it block.
CompletedIteration == anyPc = "loop" /\ anyPc' = "loop"

\* C24: after every completed iteration of solve_iter the timeout is the
\* one before minus the elapsed time measured if that is less than the
\* timeout, and 0 otherwise; the timeout never grows and never wraps below
\* zero, each solver call is given the timeout remaining when it is made,
\* and no solver call is made once the timeout is 0.
C24_BudgetAccounting ==
    [][/\ CompletedIteration =>
            timeout' = IF hist'.elapsed < timeout
                       THEN timeout - hist'.elapsed ELSE 0
       /\ timeout' <= timeout /\ timeout' >= 0
       /\ SolverCall => (hist'.given = timeout /\ timeout # 0)
       /\ (anyPc = "loop" /\ timeout = 0) =>
            (anyPc' = "done" /\ hist' = hist)]_vars

\* Two iterations were completed, the first measured less than the budget
\* and the second more than what was left of it.
C24_Witness ==
    /\ anyPc = "loop" /\ i = n * m - 2
    /\ hist.given > 0 /\ hist.given < MaxBudget
    /\ hist.elapsed > hist.given
    /\ timeout = 0

\* C25: for every wait_time the total budget is 1000 * wait_time ms, the
\* budget handed to solve_iter is that total minus the reserved 200 ms, and
\* that budget is never larger than the total.
C25_FeasibilityBudget ==
    [][(pc = "launch_any" /\ anyfut' = "valid") =>
            /\ wt = MsPerSecond * wait_time
            /\ timeout' = wt - Reserve
            /\ timeout' <= wt]_vars

\* The step of solve that calls opt.check().
OptCheck == minPc = "run" /\ minPc' = "done"

\* C26: the minimizing strategy makes one solver check per request, with
\* the live-cell count of t0 as the target to minimize (a sat answer has
\* no more live cells than any model of the constraints) and the whole
\* total budget as timeout; it writes its output matrix only when the check
\* answers sat, and otherwise returns false with the matrix as it was.
C26_OneMinimizingCheck ==
    [][/\ hist.minAnswer # "none" =>
            (hist'.minAnswer = hist.minAnswer /\ minTable' = minTable
                /\ minRet' = minRet /\ minPc' = "done")
       /\ minPc = "run" => (minPc' = "run" \/ OptCheck)
       /\ minTable' # minTable => (OptCheck /\ hist'.minAnswer = "sat")
       /\ OptCheck =>
            /\ hist.minAnswer = "none" /\ hist'.minAnswer # "none"
            /\ hist'.minGiven = wt
            /\ minTable = Matrix(n, m)
            /\ minRet' = (hist'.minAnswer = "sat")
            /\ hist'.minAnswer # "sat" => minTable' = minTable
            /\ hist'.minAnswer = "sat" =>
                 /\ Life(minTable', n, m) = t1
                 /\ \A ct0 \in opt :
                        LiveCells(minTable') <= LiveCells(fill_t0(ct0, n, m))]_vars

\* solve has returned true with a predecessor that has live cells, after a
\* check given a budget of one second.
C26_Witness ==
    /\ minPc = "done" /\ minRet /\ hist.minAnswer = "sat"
    /\ hist.minGiven = MsPerSecond
    /\ LiveCells(minTable) > 1
    /\ \E g \in Tables(n, m) : Life(g, n, m) = t1 /\ LiveCells(g) > LiveCells(minTable)

\* C27: solve_iter terminates, after at most rows * cols + 1 solver calls
\* whatever the solver answers and however long it takes: the loop is
\* entered with i = rows * cols, a call is made only with 0 <= i, the call
\* number k is made with i = rows * cols - (k - 1), and a pass either ends
\* the loop or lowers i by one.
C27_Terminates ==
    /\ [][/\ (anyPc = "encode" /\ anyPc' = "loop") => i' = n * m
          /\ SolverCall => (i >= 0 /\ i <= n * m)
          /\ CompletedIteration => i' = i - 1
          /\ (anyPc = "loop" /\ ~CompletedIteration) => anyPc' = "done"
          /\ anyPc = "done" => anyPc' = "done"]_vars
    /\ <>(anyPc = "done")

\* rows * cols + 1 calls were made, all of them answering sat, and the loop
\* is about to end on i = -1.
C27_Witness == anyPc = "loop" /\ i = -1 /\ n * m > 1 /\ timeout > 0

\* The step of launch_tasks that measures elapsed and computes the duration
\* of the wait on minfut.
ComputesRemaining == pc = "read_first" /\ pc' = "wait_min"

\* C28: the duration launch_tasks waits for minfut is max(0, total -
\* elapsed) for the elapsed time measured on the steady clock since the
\* wait on anyfut began; the time spent in that wait (at most its duration,
\* the total, and at most elapsed) plus the duration of the wait on minfut
\* is never more than the total, and the difference never wraps.
C28_RemainingWait ==
    [][/\ ComputesRemaining =>
            /\ \E elapsed \in WaitElapsed :
                 LET spent == IF elapsed < wt THEN elapsed ELSE wt
                 IN  /\ remaining' = IF wt - elapsed > 0 THEN wt - elapsed ELSE 0
                     /\ spent + remaining' <= wt
            /\ remaining' >= 0 /\ remaining' <= wt
       /\ remaining' # remaining => ComputesRemaining
       /\ (pc = "wait_min" /\ pc' # pc) =>
            /\ hist'.minWaited
            /\ minfut' = "retrieved" => (remaining # 0 /\ minPc = "done")]_vars

\* launch_tasks found the feasibility task done early and the minimizing
\* task ready within a duration that is a part of the total only.
C28_Witness ==
    /\ pc = "return" /\ hist.minWaited /\ hist.minReady
    /\ anyWait = "ready"
    /\ remaining > 0 /\ remaining < wt

\* The matrix ct1 as init_repr fixes it from t1.
Ct1 == CHOOSE c \in Assignments(n, m) : init_repr(t1, c, n, m)

\* C29: the five implications of the earlier add_clauses accept the same
\* values of ct0(i, j), ct1(i, j) and neigh as the single constraint
\* ct1 == (neigh == 3 or (ct0 and neigh == 2)): on every cell of every grid
\* encoded, under every assignment of ct0.
C29_SameTriples ==
    [][(anyPc = "encode" /\ anyPc' = "loop") =>
        \A ct1 \in {Ct1} : \A ct0 \in Assignments(n, m) :
            \A ci \in 0..(n - 1) : \A cj \in 0..(m - 1) :
                five_implications(ct0, ct1, n, m, ci, cj)
                    = rule_clause(ct0, ct1, n, m, ci, cj)]_vars

\* A 3x3 grid is encoded whose centre is alive at t1: with ct0 ranging over
\* all assignments its neigh takes every value of 0..8, and both encodings
\* accept it with three neighbours and reject it with eight.
C29_Witness ==
    /\ anyPc = "loop" /\ n = 3 /\ m = 3 /\ At(t1, m, 1, 1) = 1
    /\ \A k \in 0..8 : \E ct0 \in Assignments(n, m) : neigh_sum(ct0, n, m, 1, 1) = k
    /\ \E ct1 \in {Ct1} : \E ct0 \in Assignments(n, m) :
         neigh_sum(ct0, n, m, 1, 1) = 8 /\ ~five_implications(ct0, ct1, n, m, 1, 1)
    /\ \E ct1 \in {Ct1} : \E ct0 \in Assignments(n, m) :
         neigh_sum(ct0, n, m, 1, 1) = 3 /\ five_implications(ct0, ct1, n, m, 1, 1)

\* A table whose cells hold literals that differ from cell to cell.
ProbeBoard(rows, cols) == [k \in 0..(rows * cols - 1) |-> k + 1]

\* The literals ProbeBoard holds in the Moore neighbours of (ci, cj) that
\* lie on the grid.
MooreLiterals(rows, cols, ci, cj) ==
    {At(ProbeBoard(rows, cols), cols, c[1], c[2]) : c \in Moore(rows, cols, ci, cj)}

\* C30: on every grid and for every cell (i, j), neigh_sum and the two
\* legacy neigh_init enumerate the cells (i + di, j + dj) of the 8 Moore
\* offsets that lie on the grid, each once, and no other cell: neigh_sum
\* counts the live cells among them, and the neigh_init return the
\* literals of exactly those cells, with no literal twice.
C30_ExactlyMoore ==
    \A ci \in 0..(n - 1) : \A cj \in 0..(m - 1) :
        LET lits == MooreLiterals(n, m, ci, cj)
            old  == neigh_init(ProbeBoard(n, m), n, m, ci, cj)
            new  == solve_neigh_init(ProbeBoard(n, m), n, m, ci, cj)
        IN  /\ neigh_sum([k \in 0..(n * m - 1) |-> t1[k] = 1], n, m, ci, cj)
                 = Cardinality({c \in Moore(n, m, ci, cj) : At(t1, m, c[1], c[2]) = 1})
            /\ {old[k] : k \in 1..8} \ {0} = lits
            /\ Cardinality({k \in 1..8 : old[k] # 0}) = Cardinality(lits)
            /\ {new[k] : k \in 1..Len(new)} = lits
            /\ Len(new) = Cardinality(lits)

\* A 3x3 grid with every cell alive has been encoded: the corner has three
\* neighbours on the grid, the edge five and the centre eight, all counted.
C30_Witness ==
    /\ anyPc = "loop" /\ n = 3 /\ m = 3 /\ LiveCells(t1) = 9
    /\ neigh_sum([k \in 0..(n * m - 1) |-> t1[k] = 1], n, m, 0, 0) = 3
    /\ neigh_sum([k \in 0..(n * m - 1) |-> t1[k] = 1], n, m, 0, 1) = 5
    /\ neigh_sum([k \in 0..(n * m - 1) |-> t1[k] = 1], n, m, 1, 1) = 8
    /\ Len(solve_neigh_init(ProbeBoard(n, m), n, m, 0, 0)) = 3
    /\ Cardinality({k \in 1..8 : neigh_init(ProbeBoard(n, m), n, m, 2, 2)[k] # 0}) = 3

\* C31: under every assignment of the t0 variables the expression
\* add_clauses returns has the number of live t0 cells as its value, which
\* is also what count_ones returns on a model with that assignment.
C31_TotalIsLiveCount ==
    [][(anyPc = "encode" /\ anyPc' = "loop") =>
        \A ct0 \in Assignments(n, m) :
            /\ total(ct0, n, m) = Cardinality({k \in 0..(n * m - 1) : ct0[k]})
            /\ total(ct0, n, m) = count_ones(ct0, n, m)]_vars

\* A 3x3 grid has been encoded and the solver holds a model with three
\* live cells out of nine, which the expression and count_ones both give.
C31_Witness ==
    /\ anyPc = "loop" /\ n = 3 /\ m = 3
    /\ \E ct0 \in sol :
         /\ total(ct0, n, m) = 3
         /\ count_ones(ct0, n, m) = 3
         /\ LiveCells(fill_t0(ct0, n, m)) = 3

\* Distinct cells of the board read hold literals of distinct magnitudes.
DistinctLiterals ==
    LET b == board_read(t1, n, m)
    IN  \A k \in 0..(n * m - 1) : \A l \in 0..(n * m - 1) :
            k # l => Abs(b[k]) # Abs(b[l])

\* C32: board_read gives the cell (row, col) the literal of magnitude
\* row * cols + col + 1, negative when the cell is dead, so that distinct
\* cells of a board get distinct solver variables.
C32_LiteralOfCell ==
    pc = "kissat_solve" =>
        /\ \A k \in 0..(n * m - 1) :
              board_read(t1, n, m)[k]
                = (IF t1[k] = 0 THEN -1 ELSE 1) * ((k \div m) * m + (k % m) + 1)
        /\ DistinctLiterals

\* The assignment of the t0 variables that fill_t0 wrote into a grid.
ModelOf(tab0) == [k \in 0..(n * m - 1) |-> tab0[k] = 1]

ReadsResult == pc = "select" /\ pc' = "done"

\* C34: in every interleaving, the grid previous_state returns as a
\* solution is one whole solver model: when it is copied neither task is
\* running, it is the grid the last fill_t0 of its task wrote, a model of
\* the constraints, and no task writes any.table or min.table afterwards.
C34_NoTornResult ==
    [][/\ ReadsResult =>
            /\ anyPc \in {"idle", "done"} /\ minPc \in {"idle", "done"}
            /\ result'.from = "any" =>
                 /\ result'.table = anyTable
                 /\ ModelOf(anyTable) \in Satisfying(t1, n, m)
            /\ result'.from = "min" =>
                 /\ result'.table = minTable
                 /\ ModelOf(minTable) \in Satisfying(t1, n, m)
       /\ pc = "done" => (anyTable' = anyTable /\ minTable' = minTable)]_vars

\* previous_state has returned the feasibility grid, with live cells,
\* after a wait on anyfut that expired while solve_iter was running and
\* that only the destructor of the future made up for.
C34_Witness ==
    /\ pc = "done" /\ result.from = "any"
    /\ anyWait = "expired"
    /\ LiveCells(result.table) > 0
    /\ hist.lastAnswer = "sat"

\* C35: wait_future returns the result of the future (emptying it) when the
\* task is done by the end of the duration given, whatever the duration,
\* zero included, and std::nullopt only when the task is not done by then.
C35_WaitFutureResult ==
    [][/\ (pc = "wait_any" /\ pc' = "read_first") =>
            ((anyPc = "done") <=> (anyfut' = "retrieved"))
       /\ (pc = "wait_min" /\ pc' = "return") =>
            ((minPc = "done") <=> (minfut' = "retrieved" /\ ret'.second = minRet))]_vars

\* C36: when the first program's solve returns, on every path, the handle
\* it obtained from kissat_init has been released, and kissat_release was
\* not called on a null handle.
C36_HandleReleased ==
    (pc = "done" /\ solver # "none") => solver = "released"

====
